---- MODULE Spec2Model ----
(***************************************************************************)
(* Model of MikrokontrollerBluetoothNFCReader.ino: the boot sequence       *)
(* (setup), the join loop (connectToWiFi), the captive-portal handler      *)
(* (handleSave, run by the web server's own task), the scheduling tick     *)
(* (loop) with its serial command, reconnect timer and tag dedup gate, and *)
(* the restart that wipes RAM and keeps the Preferences store.             *)
(*                                                                         *)
(* Arduino Strings on which the code works character by character (the     *)
(* serial command, the tag id) are sequences of one-character strings;     *)
(* SSIDs and passwords, which the code only copies and compares, are       *)
(* TLA+ strings.  A Preferences key is <<>> when absent and <<v>> when it  *)
(* holds v.                                                                *)
(*                                                                         *)
(* Time is counted in units of 32 ms, so that the 32-bit millisecond       *)
(* counter fits the checker's integers: 2^32 ms are 2^27 units and         *)
(* 60000 ms are 1875 units, both exactly.  The clock is the uptime as loop  *)
(* finds it: it moves between two passes of loop, by steps that stand for  *)
(* all the time gone by since the pass before (the waits of setup and of   *)
(* readRFID included); millis() is the uptime modulo 2^27 units (unsigned  *)
(* long on the ESP32).                                                     *)
(***************************************************************************)
EXTENDS Integers, Sequences, FiniteSets, TLC

VARIABLES
    prefs,              \* Preferences namespace "wifi": [ssid, password], flash
    prefsStarted,       \* the Preferences object is open (begin without end)
    savedSSID,          \* String savedSSID
    savedPassword,      \* String savedPassword
    serverURL,          \* String serverURL
    networkList,        \* String networkList[MAX_NETWORKS]
    networkCount,       \* int networkCount
    lastUID,            \* String lastUID
    lastReconnectTime,  \* static unsigned long lastReconnectTime (loop)
    attempts,           \* int attempts (connectToWiFi; 0 outside of it)
    wifiMode,           \* WiFi.getMode(): "NULL", "AP", "AP_STA" or "STA"
    linkUp,             \* WiFi.status() == WL_CONNECTED
    webServerUp,        \* webServer.begin() has run: handlers are registered
    clock,              \* uptime at loop's latest look at it, units of 32 ms
    advances,           \* observations of a later uptime in this boot
    pc,                 \* position of the main task (setup, then loop)
    apc,                \* position of the web server task in handleSave
    newSSID,            \* handleSave's local String newSSID
    newPassword,        \* handleSave's local String newPassword
    httpStatus,         \* status of the last answer to POST /save (0: none)
    polled,             \* readRFID has been called in this boot
    tickRaw,            \* mfrc522.uid on the latest tag poll (<<>>: no card)
    tickRead,           \* what readRFID returned on the latest tag poll
    events,             \* the "New Card Detected" ids printed in this boot
    notified,           \* the ids sendRFIDData was called with in this boot
    beginCalls,         \* WiFi.begin calls in this boot
    joinedWith,         \* arguments of the latest WiFi.begin (<<>>: none)
    mdnsQueries,        \* setupMDNS calls in this boot
    reconnectLog,       \* uptimes of the reconnect attempts of this boot
    resetReason         \* up to the first step after setup: what the
                        \* previous boot restarted for, and the submission
                        \* its handleSave had accepted, if any

vars == <<prefs, prefsStarted, savedSSID, savedPassword, serverURL, networkList, networkCount,
          lastUID, lastReconnectTime, attempts, wifiMode, linkUp, webServerUp,
          clock, advances, pc, apc, newSSID, newPassword, httpStatus, polled, tickRead,
          events,
          notified, beginCalls, reconnectLog, resetReason,
                   tickRaw, joinedWith, mdnsQueries>>

----------------------------------------------------------------------------
(* Program constants *)

MAX_NETWORKS == 20
MaxJoinAttempts == 10
JoinPollDelay == 1000

\* 60000 ms and 2^32 ms (the range of unsigned long), in units of 32 ms
ReconnectInterval == 60000 \div 32
ULongModulus == 2^27

(* Bounds of the model *)

MaxAdvances == 2
MaxEvents == 3

----------------------------------------------------------------------------
(* Arduino String helpers *)

Digits == <<"0", "1", "2", "3", "4", "5", "6", "7",
            "8", "9", "a", "b", "c", "d", "e", "f">>

UpperOf == [a |-> "A", b |-> "B", c |-> "C", d |-> "D", e |-> "E", f |-> "F",
            g |-> "G", h |-> "H", i |-> "I", j |-> "J", k |-> "K", l |-> "L",
            m |-> "M", n |-> "N", o |-> "O", p |-> "P", q |-> "Q", r |-> "R",
            s |-> "S", t |-> "T", u |-> "U", v |-> "V", w |-> "W", x |-> "X",
            y |-> "Y", z |-> "Z"]

LowerOf == [A |-> "a", B |-> "b", C |-> "c", D |-> "d", E |-> "e", F |-> "f",
            G |-> "g", H |-> "h", I |-> "i", J |-> "j", K |-> "k", L |-> "l",
            M |-> "m", N |-> "n", O |-> "o", P |-> "p", Q |-> "q", R |-> "r",
            S |-> "s", T |-> "t", U |-> "u", V |-> "v", W |-> "w", X |-> "x",
            Y |-> "y", Z |-> "z"]

toupper(ch) == IF ch \in DOMAIN UpperOf THEN UpperOf[ch] ELSE ch

tolower(ch) == IF ch \in DOMAIN LowerOf THEN LowerOf[ch] ELSE ch

\* The vertical tab (0x0B), which has no escape in a string
VerticalTab == ""

\* isspace of the C library, which String::trim calls
isSpace(ch) == ch \in {" ", "\t", "\n", VerticalTab, "\f", "\r"}

\* String::toUpperCase
toUpperCase(str) == [i \in 1..Len(str) |-> toupper(str[i])]

\* String::trim: drops the leading and the trailing whitespace
RECURSIVE trimLeft(_)
trimLeft(str) ==
    IF str # <<>> /\ isSpace(Head(str)) THEN trimLeft(Tail(str)) ELSE str

RECURSIVE trimRight(_)
trimRight(str) ==
    IF str # <<>> /\ isSpace(str[Len(str)])
    THEN trimRight(SubSeq(str, 1, Len(str) - 1))
    ELSE str

trim(str) == trimRight(trimLeft(str))

\* String::equalsIgnoreCase
equalsIgnoreCase(s1, s2) ==
    /\ Len(s1) = Len(s2)
    /\ \A i \in 1..Len(s1) : tolower(s1[i]) = tolower(s2[i])

\* String(byte, HEX): the digits of the value in base 16, without leading zero
StringHex(b) ==
    IF b < 16 THEN <<Digits[b + 1]>>
    ELSE <<Digits[(b \div 16) + 1], Digits[(b % 16) + 1]>>

----------------------------------------------------------------------------
(* Credential store: Preferences namespace "wifi" *)

NoPrefs == [ssid |-> <<>>, password |-> <<>>]

\* Preferences::getString(key, "")
getString(store, key) == IF store[key] = <<>> THEN "" ELSE store[key][1]

\* Preferences::putString(key, value)
putString(store, key, value) == [store EXCEPT ![key] = <<value>>]

clearPrefs_Nothing(store) == store

\* Preferences::clear
clearPrefs(store) == NoPrefs

\* Preferences::putString and Preferences::clear on the one object that the
\* main task and the web server task share: nothing happens on an object
\* that is not open, whoever closed it
putStringOn(started, store, key, value) ==
    IF started THEN putString(store, key, value) ELSE store

clearOn(started, store) == IF started THEN clearPrefs(store) ELSE store

\* saveCredentials: the two putString calls, ssid first
saveCredentials(store, ssid, password) ==
    putString(putString(store, "ssid", ssid), "password", password)

loadCredentials_NoPassword(store) ==
    [ssid |-> getString(store, "ssid"), password |-> ""]

\* loadCredentials: the values it leaves in savedSSID and savedPassword
loadCredentials(store) ==
    [ssid |-> getString(store, "ssid"),
     password |-> getString(store, "password")]

----------------------------------------------------------------------------
(* Inputs *)

\* Answers of WiFi.scanNetworks(): a count, or WIFI_SCAN_RUNNING (-1) or
\* WIFI_SCAN_FAILED (-2)
ScanResults == {-2, -1, 0, 2, MAX_NETWORKS, MAX_NETWORKS + 1}

\* WiFi.SSID(i)
ScanSSID(i) == "net" \o ToString(i)

\* Form fields of a POST /save: <<>> when the field is absent
Requests == [ssid : {<<>>, <<"">>, <<"home">>},
             password : {<<>>, <<"secret">>}]

\* What the serial port holds when checkSerialCommand looks at it
ClearWord == <<"c", "l", "e", "a", "r">>

SerialLines == { <<VerticalTab, " ", "C", "l", "E", "A", "R", "\r">>,
                 <<"c", "l", "e", "a", "r", "s">> }

SerialInputs == {[available |-> FALSE, line |-> <<>>]}
                \cup {[available |-> TRUE, line |-> l] : l \in SerialLines}

\* What the reader holds on a poll: no card (<<>>), or the uid bytes of a card
NoCard == <<>>

TagUIDs == { <<4, 163, 255>>, <<74, 63, 15>>, <<222, 173, 190, 239>> }

RawReads == {NoCard} \cup TagUIDs

\* Answers of MDNS.queryHost: "" stands for the null address
QueryAnswers == {"", "192.168.1.36"}

\* How far the uptime moves between two observations of it
Deltas == {ReconnectInterval - 1, ReconnectInterval, ULongModulus - 1}

----------------------------------------------------------------------------
(* Functions of the sketch *)

\* millis()
millis == clock % ULongModulus

ScanCount_NoCap(n) == n

\* scanWiFiNetworks: the count it leaves in networkCount
ScanCount(n) ==
    IF n = -1 THEN n
    ELSE IF n > MAX_NETWORKS THEN MAX_NETWORKS ELSE n

\* WiFi.scanNetworks (ESP32 core): the scan turns the station interface on
\* before it starts, so that a radio in AP mode is in AP+STA mode from then
\* on; the answer -1 (a scan is running already) comes before that
ScanMode(n, mode) == IF n = -1 THEN mode ELSE "AP_STA"

\* scanWiFiNetworks: the list it leaves in networkList
ScanList(n, list) ==
    IF n = -1 THEN list
    ELSE [i \in 0..(MAX_NETWORKS - 1) |->
             IF i < ScanCount(n) THEN ScanSSID(i) ELSE list[i]]

\* readRFID: the uid bytes in hexadecimal, upper case; "" without a card
RECURSIVE uidHex(_)
uidHex(bytes) ==
    IF bytes = <<>> THEN <<>> ELSE StringHex(Head(bytes)) \o uidHex(Tail(bytes))

readRFID(raw) == IF raw = NoCard THEN <<>> ELSE toUpperCase(uidHex(raw))

\* checkSerialCommand: whether it clears the store and restarts
ClearCommand(in) ==
    /\ in.available
    /\ equalsIgnoreCase(trim(in.line), ClearWord)

\* Variants of the tests below, each with one plausible slip
KeepWaiting_OffByOne(up, n) == ~up /\ n <= MaxJoinAttempts

DedupSuppressed_EmptyOnly(uid, last) == uid = <<>>

RememberUID_KeepFirst(uid, last) == IF last = <<>> THEN uid ELSE last

DedupSuppressed_ForgetsAfterOutage(uid, last) ==
    uid = <<>> \/ (uid = last /\ reconnectLog = <<>>)

ReconnectDue_SinceBoot(now, last) == now >= ReconnectInterval

HasBothParams_SsidOnly(req) == req.ssid # <<>>

LinkDown_Never(up) == FALSE

ReconnectDue_Capped(now, last) ==
    /\ ((now - last) % ULongModulus) >= ReconnectInterval
    /\ beginCalls < 2

ReconnectDue_Strict(now, last) ==
    ((now - last) % ULongModulus) > ReconnectInterval

ReconnectDue_WrapResets(now, last) ==
    IF now < last THEN TRUE ELSE now - last >= ReconnectInterval

ResolvedURL_Fallback(answer, url) ==
    IF answer # "" THEN "http://" \o answer \o ":8000/input-log/"
    ELSE "http://192.168.1.36:8000/input-log/"

\* setup: no credentials are saved
Unprovisioned(ssid) == ssid = ""

\* connectToWiFi: the condition of its while loop
KeepWaiting(up, n) == ~up /\ n < MaxJoinAttempts

\* loop: WiFi.getMode() == WIFI_AP
InAPMode(mode) == mode = "AP"

\* loop: WiFi.status() != WL_CONNECTED
LinkDown(up) == ~up

\* loop: the test that ends the tick without a new-card event
DedupSuppressed(uid, last) == uid = <<>> \/ uid = last

\* loop: lastUID after the tag poll
RememberUID(uid, last) == IF DedupSuppressed(uid, last) THEN last ELSE uid

\* loop: whether a reconnect attempt is due (unsigned 32-bit subtraction)
ReconnectDue(now, last) ==
    ((now - last) % ULongModulus) >= ReconnectInterval

\* handleSave: both form fields are present
HasBothParams(req) == req.ssid # <<>> /\ req.password # <<>>

\* handleSave: getParam(name, true)->value()
ParamValue(field) == IF field = <<>> THEN "" ELSE field[1]

\* setupMDNS: the url it leaves in serverURL
ResolvedURL(answer, url) ==
    IF answer # "" THEN "http://" \o answer \o ":8000/input-log/" ELSE url

\* sendRFIDData: the requests sent so far, with one more for uid when the
\* link is up
sendRFIDData(calls, uid, up) == IF ~up THEN calls ELSE Append(calls, uid)

\* loop: the calls of sendRFIDData after a new card (the call is commented out)
NotifyNewCard(calls, uid) == calls

----------------------------------------------------------------------------
(* State after a reset: the globals' initialisers *)

\* resetReason once the boot has gone on from setup
NoReset == [cause |-> "none", accepted |-> FALSE, ssid |-> "", password |-> ""]

EmptyList == [i \in 0..(MAX_NETWORKS - 1) |-> ""]

RamInit ==
    /\ savedSSID = ""
    /\ savedPassword = ""
    /\ serverURL = ""
    /\ networkList = EmptyList
    /\ networkCount = 0
    /\ lastUID = <<>>
    /\ lastReconnectTime = 0
    /\ attempts = 0
    /\ wifiMode = "NULL"
    /\ prefsStarted = FALSE
    /\ linkUp = FALSE
    /\ webServerUp = FALSE
    /\ clock = 0
    /\ advances = 0
    /\ pc = "setup"
    /\ apc = "idle"
    /\ newSSID = ""
    /\ newPassword = ""
    /\ httpStatus = 0
    /\ polled = FALSE
    /\ tickRead = <<>>
    /\ events = <<>>
    /\ notified = <<>>
    /\ beginCalls = 0
    /\ reconnectLog = <<>>
    /\ tickRaw = <<>>
    /\ joinedWith = <<>>
    /\ mdnsQueries = 0

Init ==
    /\ prefs = NoPrefs
    /\ resetReason = [cause |-> "power_on", accepted |-> FALSE,
                      ssid |-> "", password |-> ""]
    /\ RamInit

----------------------------------------------------------------------------
(* Main task: setup *)

\* setup, stored ssid empty: startProvisioning (AP, DNS, scan, web server)
setupProvisioning(scan) ==
    /\ pc = "setup"
    /\ Unprovisioned(loadCredentials(prefs).ssid)
    /\ savedSSID' = loadCredentials(prefs).ssid
    /\ savedPassword' = loadCredentials(prefs).password
    /\ wifiMode' = ScanMode(scan, "AP")
    /\ networkCount' = ScanCount(scan)
    /\ networkList' = ScanList(scan, networkList)
    /\ webServerUp' = TRUE
    /\ pc' = "loop"
    /\ UNCHANGED <<prefs, serverURL, lastUID, lastReconnectTime, attempts,
                   linkUp, clock, advances, apc, newSSID, newPassword, httpStatus,
                   polled, tickRead, events, notified, beginCalls,
                   reconnectLog, resetReason, prefsStarted,
                   tickRaw, joinedWith, mdnsQueries>>

\* setup, stored ssid not empty: connectToWiFi up to its polling loop
setupConnecting ==
    /\ pc = "setup"
    /\ ~Unprovisioned(loadCredentials(prefs).ssid)
    /\ savedSSID' = loadCredentials(prefs).ssid
    /\ savedPassword' = loadCredentials(prefs).password
    /\ wifiMode' = "STA"
    /\ beginCalls' = beginCalls + 1
    /\ joinedWith' = <<savedSSID', savedPassword'>>
    /\ attempts' = 0
    /\ pc' = "connecting"
    /\ UNCHANGED <<prefs, serverURL, networkList, networkCount, lastUID,
                   lastReconnectTime, linkUp, webServerUp, clock, advances, apc,
                   newSSID, newPassword, httpStatus, polled, tickRead, events,
                   notified, reconnectLog, resetReason, prefsStarted,
                   tickRaw, mdnsQueries>>

\* connectToWiFi: one evaluation of the while condition; when it holds the
\* main task goes to sleep in delay(1000)
connectPoll ==
    /\ pc = "connecting"
    /\ pc' = IF KeepWaiting(linkUp, attempts) THEN "connect_wait"
             ELSE "connect_result"
    /\ resetReason' = NoReset
    /\ UNCHANGED <<prefs, savedSSID, savedPassword, serverURL, networkList,
                   networkCount, lastUID, lastReconnectTime, attempts,
                   wifiMode, linkUp, webServerUp, clock, advances, apc,
                   newSSID, newPassword, httpStatus, polled, tickRaw,
                   tickRead, events, notified, beginCalls, joinedWith,
                   mdnsQueries, reconnectLog, prefsStarted>>

\* connectToWiFi: delay(1000) is over; the attempt is counted
connectWait ==
    /\ pc = "connect_wait"
    /\ attempts' = attempts + 1
    /\ pc' = "connecting"
    /\ resetReason' = NoReset
    /\ UNCHANGED <<prefs, savedSSID, savedPassword, serverURL, networkList,
                   networkCount, lastUID, lastReconnectTime, wifiMode,
                   linkUp, webServerUp, clock, advances, apc, newSSID,
                   newPassword, httpStatus, polled, tickRaw, tickRead,
                   events, notified, beginCalls, joinedWith, mdnsQueries,
                   reconnectLog, prefsStarted>>

\* connectToWiFi returns true; setup goes on with setupMDNS, which starts the
\* responder and sends the query for the backend
connectSuccess ==
    /\ pc = "connect_result"
    /\ linkUp
    /\ mdnsQueries' = mdnsQueries + 1
    /\ attempts' = 0
    /\ pc' = "mdns_query"
    /\ resetReason' = NoReset
    /\ UNCHANGED <<prefs, savedSSID, savedPassword, serverURL, networkList,
                   networkCount, lastUID, lastReconnectTime, wifiMode,
                   linkUp, webServerUp, clock, advances, apc, newSSID,
                   newPassword, httpStatus, polled, tickRaw, tickRead,
                   events, notified, beginCalls, joinedWith, reconnectLog,
                   prefsStarted>>

\* setupMDNS: MDNS.queryHost returns, after at most two seconds, with the
\* answer; setup ends and loop begins
setupMDNS(answer) ==
    /\ pc = "mdns_query"
    /\ serverURL' = ResolvedURL(answer, serverURL)
    /\ pc' = "loop"
    /\ resetReason' = NoReset
    /\ UNCHANGED <<prefs, savedSSID, savedPassword, networkList,
                   networkCount, lastUID, lastReconnectTime, attempts,
                   wifiMode, linkUp, webServerUp, clock, advances, apc,
                   newSSID, newPassword, httpStatus, polled, tickRaw,
                   tickRead, events, notified, beginCalls, joinedWith,
                   mdnsQueries, reconnectLog, prefsStarted>>

\* connectToWiFi fails: the store is cleared (begin, clear and end in one
\* step: the web server is not started in a boot that joins, so that no other
\* task uses the Preferences object), then delay(500) and restart
connectFailure ==
    /\ pc = "connect_result"
    /\ ~linkUp
    /\ prefs' = clearPrefs(prefs)
    /\ prefsStarted' = FALSE
    /\ pc' = "restart_join_failed"
    /\ resetReason' = NoReset
    /\ UNCHANGED <<savedSSID, savedPassword, serverURL, networkList,
                   networkCount, lastUID, lastReconnectTime, attempts,
                   wifiMode, linkUp, webServerUp, clock, advances, apc, newSSID,
                   newPassword, httpStatus, polled, tickRead, events,
                   notified, beginCalls, reconnectLog, tickRaw, joinedWith, mdnsQueries>>

----------------------------------------------------------------------------
(* Main task: loop, one action per path through one pass *)

\* checkSerialCommand finds the clear command: up to preferences.begin, which
\* opens the Preferences object (or finds it open)
loopSerialClear(in) ==
    /\ pc = "loop"
    /\ ClearCommand(in)
    /\ prefsStarted' = TRUE
    /\ pc' = "clear_begun"
    /\ resetReason' = NoReset
    /\ UNCHANGED <<prefs, savedSSID, savedPassword, serverURL, networkList,
                   networkCount, lastUID, lastReconnectTime, attempts,
                   wifiMode, linkUp, webServerUp, clock, advances, apc, newSSID,
                   newPassword, httpStatus, polled, tickRead, events,
                   notified, beginCalls, reconnectLog, tickRaw, joinedWith, mdnsQueries>>

\* checkSerialCommand: preferences.clear
checkSerialClear ==
    /\ pc = "clear_begun"
    /\ prefs' = clearOn(prefsStarted, prefs)
    /\ pc' = "clear_done"
    /\ resetReason' = NoReset
    /\ UNCHANGED <<savedSSID, savedPassword, serverURL, networkList,
                   networkCount, lastUID, lastReconnectTime, attempts,
                   wifiMode, linkUp, webServerUp, clock, advances, apc, newSSID,
                   newPassword, httpStatus, polled, tickRead, events,
                   notified, beginCalls, reconnectLog, prefsStarted, tickRaw, joinedWith, mdnsQueries>>

\* checkSerialCommand: preferences.end; then delay(500) and restart
checkSerialEnd ==
    /\ pc = "clear_done"
    /\ prefsStarted' = FALSE
    /\ pc' = "restart_serial_clear"
    /\ resetReason' = NoReset
    /\ UNCHANGED <<prefs, savedSSID, savedPassword, serverURL, networkList,
                   networkCount, lastUID, lastReconnectTime, attempts,
                   wifiMode, linkUp, webServerUp, clock, advances, apc, newSSID,
                   newPassword, httpStatus, polled, tickRead, events,
                   notified, beginCalls, reconnectLog, tickRaw, joinedWith, mdnsQueries>>

\* AP mode: the DNS server is serviced and the pass ends
loopProvisioning(in) ==
    /\ pc = "loop"
    /\ ~ClearCommand(in)
    /\ InAPMode(wifiMode)
    /\ resetReason' = NoReset
    /\ UNCHANGED <<prefs, prefsStarted, savedSSID, savedPassword, serverURL,
                   networkList, networkCount, lastUID, lastReconnectTime,
                   attempts, wifiMode, linkUp, webServerUp, clock, advances,
                   pc, apc, newSSID, newPassword, httpStatus, polled, tickRaw,
                   tickRead, events, notified, beginCalls, joinedWith,
                   mdnsQueries, reconnectLog>>

\* Link down: a reconnect attempt when one is due, and the pass ends
loopReconnecting(in) ==
    /\ pc = "loop"
    /\ ~ClearCommand(in)
    /\ ~InAPMode(wifiMode)
    /\ LinkDown(linkUp)
    /\ IF ReconnectDue(millis, lastReconnectTime)
       THEN /\ beginCalls' = beginCalls + 1
            /\ joinedWith' = <<savedSSID, savedPassword>>
            /\ lastReconnectTime' = millis
            /\ reconnectLog' = Append(reconnectLog, clock)
       ELSE UNCHANGED <<beginCalls, joinedWith, lastReconnectTime,
                        reconnectLog>>
    /\ resetReason' = NoReset
    /\ UNCHANGED <<prefs, savedSSID, savedPassword, serverURL, networkList,
                   networkCount, lastUID, attempts, wifiMode, linkUp,
                   webServerUp, clock, advances, pc, apc, newSSID, newPassword,
                   httpStatus, polled, tickRead, events, notified,
                   prefsStarted, tickRaw, mdnsQueries>>

\* Link up: readRFID asks the reader for a card. Without one it returns ""
\* and the pass ends; with one it makes the id and goes to sleep in the
\* delays of blinkLED, beepBuzzer and vibrate
pollTags(raw) ==
    /\ pc = "loop"
    /\ ~InAPMode(wifiMode)
    /\ ~LinkDown(linkUp)
    /\ \/ DedupSuppressed(readRFID(raw), lastUID)
       \/ Len(events) < MaxEvents
    /\ polled' = TRUE
    /\ tickRaw' = raw
    /\ tickRead' = readRFID(raw)
    /\ pc' = IF raw = NoCard THEN "loop" ELSE "read_wait"
    /\ resetReason' = NoReset
    /\ UNCHANGED <<prefs, savedSSID, savedPassword, serverURL, networkList,
                   networkCount, lastUID, lastReconnectTime, attempts,
                   wifiMode, linkUp, webServerUp, clock, advances, apc,
                   newSSID, newPassword, httpStatus, events, notified,
                   beginCalls, joinedWith, mdnsQueries, reconnectLog,
                   prefsStarted>>

loopOperational(in, raw) ==
    /\ ~ClearCommand(in)
    /\ pollTags(raw)

\* readRFID returns the id after its delays: a new card is remembered and
\* reported, and the serial port is looked at once more (clear2: the clear
\* command is there, and checkSerialCommand goes on to its preferences.begin)
loopNewCard(clear2) ==
    /\ pc = "read_wait"
    /\ lastUID' = RememberUID(tickRead, lastUID)
    /\ IF DedupSuppressed(tickRead, lastUID)
       THEN /\ pc' = "loop"
            /\ UNCHANGED <<events, notified, prefsStarted>>
       ELSE /\ events' = Append(events, tickRead)
            /\ notified' = NotifyNewCard(notified, tickRead)
            /\ IF clear2
               THEN /\ prefsStarted' = TRUE
                    /\ pc' = "clear_begun"
               ELSE /\ pc' = "loop"
                    /\ UNCHANGED prefsStarted
    /\ resetReason' = NoReset
    /\ UNCHANGED <<prefs, savedSSID, savedPassword, serverURL, networkList,
                   networkCount, lastReconnectTime, attempts, wifiMode,
                   linkUp, webServerUp, clock, advances, apc, newSSID,
                   newPassword, httpStatus, polled, tickRaw, tickRead,
                   beginCalls, joinedWith, mdnsQueries, reconnectLog>>

\* The end of a pass of loop that read a card, with what the serial port holds
loopCardRead(in2) ==
    /\ in2 \in SerialInputs
    /\ loopNewCard(ClearCommand(in2))

----------------------------------------------------------------------------
(* Web server task: POST /save *)

\* handleSave, a field is missing: 400
handleSaveInvalid(req) ==
    /\ webServerUp
    /\ apc = "idle"
    /\ ~HasBothParams(req)
    /\ httpStatus' = 400
    /\ resetReason' = NoReset
    /\ UNCHANGED <<prefs, savedSSID, savedPassword, serverURL, networkList,
                   networkCount, lastUID, lastReconnectTime, attempts,
                   wifiMode, linkUp, webServerUp, clock, advances, pc, apc, newSSID,
                   newPassword, polled, tickRead, events, notified,
                   beginCalls, reconnectLog, prefsStarted,
                   tickRaw, joinedWith, mdnsQueries>>

\* handleSave, both fields present: the two values are taken from the
\* request and saveCredentials opens the Preferences object
handleSaveBegin(req) ==
    /\ webServerUp
    /\ apc = "idle"
    /\ HasBothParams(req)
    /\ newSSID' = ParamValue(req.ssid)
    /\ newPassword' = ParamValue(req.password)
    /\ prefsStarted' = TRUE
    /\ apc' = "put_ssid"
    /\ resetReason' = NoReset
    /\ UNCHANGED <<prefs, savedSSID, savedPassword, serverURL, networkList,
                   networkCount, lastUID, lastReconnectTime, attempts,
                   wifiMode, linkUp, webServerUp, clock, advances, pc, httpStatus,
                   polled, tickRead, events, notified, beginCalls,
                   reconnectLog, tickRaw, joinedWith, mdnsQueries>>

\* saveCredentials: putString of the ssid
handleSavePutSSID ==
    /\ apc = "put_ssid"
    /\ prefs' = putStringOn(prefsStarted, prefs, "ssid", newSSID)
    /\ apc' = "put_password"
    /\ resetReason' = NoReset
    /\ UNCHANGED <<savedSSID, savedPassword, serverURL, networkList,
                   networkCount, lastUID, lastReconnectTime, attempts,
                   wifiMode, linkUp, webServerUp, clock, advances, pc, httpStatus,
                   newSSID, newPassword, polled, tickRead, events, notified,
                   beginCalls, reconnectLog, prefsStarted,
                   tickRaw, joinedWith, mdnsQueries>>

\* saveCredentials: putString of the password
handleSavePutPassword ==
    /\ apc = "put_password"
    /\ prefs' = putStringOn(prefsStarted, prefs, "password", newPassword)
    /\ apc' = "prefs_end"
    /\ resetReason' = NoReset
    /\ UNCHANGED <<savedSSID, savedPassword, serverURL, networkList,
                   networkCount, lastUID, lastReconnectTime, attempts,
                   wifiMode, linkUp, webServerUp, clock, advances, pc, httpStatus,
                   newSSID, newPassword, polled, tickRead, events, notified,
                   beginCalls, reconnectLog, prefsStarted,
                   tickRaw, joinedWith, mdnsQueries>>

\* saveCredentials: preferences.end
handleSaveEnd ==
    /\ apc = "prefs_end"
    /\ prefsStarted' = FALSE
    /\ apc' = "set_ssid"
    /\ resetReason' = NoReset
    /\ UNCHANGED <<prefs, savedSSID, savedPassword, serverURL, networkList,
                   networkCount, lastUID, lastReconnectTime, attempts,
                   wifiMode, linkUp, webServerUp, clock, advances, pc, httpStatus,
                   newSSID, newPassword, polled, tickRead, events, notified,
                   beginCalls, reconnectLog, tickRaw, joinedWith, mdnsQueries>>

\* handleSave: savedSSID = newSSID, a global that loop reads
handleSaveSetSSID ==
    /\ apc = "set_ssid"
    /\ savedSSID' = newSSID
    /\ apc' = "set_password"
    /\ resetReason' = NoReset
    /\ UNCHANGED <<prefs, savedPassword, serverURL, networkList,
                   networkCount, lastUID, lastReconnectTime, attempts,
                   wifiMode, linkUp, webServerUp, clock, advances, pc, httpStatus,
                   newSSID, newPassword, polled, tickRead, events, notified,
                   beginCalls, reconnectLog, prefsStarted,
                   tickRaw, joinedWith, mdnsQueries>>

\* handleSave: savedPassword = newPassword and the answer 200; then
\* delay(500) and restart
handleSaveSetPassword ==
    /\ apc = "set_password"
    /\ savedPassword' = newPassword
    /\ httpStatus' = 200
    /\ apc' = "restart_saved"
    /\ resetReason' = NoReset
    /\ UNCHANGED <<prefs, savedSSID, serverURL, networkList,
                   networkCount, lastUID, lastReconnectTime, attempts,
                   wifiMode, linkUp, webServerUp, clock, advances, pc,
                   newSSID, newPassword, polled, tickRead, events, notified,
                   beginCalls, reconnectLog, prefsStarted,
                   tickRaw, joinedWith, mdnsQueries>>

----------------------------------------------------------------------------
(* ESP.restart, the radio and the clock *)

\* What the restart that is due is for
RestartCauses ==
    (IF pc = "restart_join_failed" THEN {"join_failed"} ELSE {})
    \cup (IF pc = "restart_serial_clear" THEN {"serial_clear"} ELSE {})
    \cup (IF apc = "restart_saved" THEN {"saved"} ELSE {})

\* ESP.restart: RAM starts again from the initialisers, the store stays
restart(cause) ==
    /\ cause \in RestartCauses
    /\ resetReason' = [cause |-> cause, accepted |-> apc # "idle",
                       ssid |-> newSSID, password |-> newPassword]
    /\ savedSSID' = ""
    /\ savedPassword' = ""
    /\ serverURL' = ""
    /\ networkList' = EmptyList
    /\ networkCount' = 0
    /\ lastUID' = <<>>
    /\ lastReconnectTime' = 0
    /\ attempts' = 0
    /\ wifiMode' = "NULL"
    /\ prefsStarted' = FALSE
    /\ linkUp' = FALSE
    /\ webServerUp' = FALSE
    /\ clock' = 0
    /\ advances' = 0
    /\ pc' = "setup"
    /\ apc' = "idle"
    /\ newSSID' = ""
    /\ newPassword' = ""
    /\ httpStatus' = 0
    /\ polled' = FALSE
    /\ tickRead' = <<>>
    /\ events' = <<>>
    /\ notified' = <<>>
    /\ beginCalls' = 0
    /\ reconnectLog' = <<>>
    /\ tickRaw' = <<>>
    /\ joinedWith' = <<>>
    /\ mdnsQueries' = 0
    /\ UNCHANGED prefs

\* The station link comes up or goes down. In AP+STA mode it stays down: the
\* station is given the empty ssid, or the pair of handleSave in the 500 ms
\* before the restart, too short for a join
linkChange ==
    /\ wifiMode = "STA"
    /\ pc \in {"connecting", "connect_wait", "connect_result", "mdns_query",
              "loop", "read_wait"}
    /\ linkUp' = ~linkUp
    /\ resetReason' = NoReset
    /\ UNCHANGED <<prefs, savedSSID, savedPassword, serverURL, networkList,
                   networkCount, lastUID, lastReconnectTime, attempts,
                   wifiMode, webServerUp, clock, advances, pc, apc, newSSID,
                   newPassword, httpStatus, polled, tickRead, events,
                   notified, beginCalls, reconnectLog, prefsStarted,
                   tickRaw, joinedWith, mdnsQueries>>

\* Time passes
clockAdvance(d) ==
    /\ pc = "loop"
    /\ advances < MaxAdvances
    /\ advances' = advances + 1
    /\ clock' = clock + d
    /\ resetReason' = NoReset
    /\ UNCHANGED <<prefs, savedSSID, savedPassword, serverURL, networkList,
                   networkCount, lastUID, lastReconnectTime, attempts,
                   wifiMode, linkUp, webServerUp, pc, apc, newSSID,
                   newPassword, httpStatus, polled, tickRead, events,
                   notified, beginCalls, reconnectLog, prefsStarted,
                   tickRaw, joinedWith, mdnsQueries>>

----------------------------------------------------------------------------
Next ==
    \/ \E scan \in ScanResults : setupProvisioning(scan)
    \/ setupConnecting
    \/ connectPoll
    \/ connectWait
    \/ connectSuccess
    \/ \E answer \in QueryAnswers : setupMDNS(answer)
    \/ connectFailure
    \/ \E in \in SerialInputs : loopSerialClear(in)
    \/ checkSerialClear
    \/ checkSerialEnd
    \/ \E in \in SerialInputs : loopProvisioning(in)
    \/ \E in \in SerialInputs : loopReconnecting(in)
    \/ \E in \in SerialInputs : \E raw \in RawReads : loopOperational(in, raw)
    \/ \E in2 \in SerialInputs : loopCardRead(in2)
    \/ \E req \in Requests : handleSaveInvalid(req)
    \/ \E req \in Requests : handleSaveBegin(req)
    \/ handleSavePutSSID
    \/ handleSavePutPassword
    \/ handleSaveEnd
    \/ handleSaveSetSSID
    \/ handleSaveSetPassword
    \/ \E cause \in {"join_failed", "serial_clear", "saved"} : restart(cause)
    \/ linkChange
    \/ \E d \in Deltas : clockAdvance(d)

Spec == Init /\ [][Next]_vars

\* The main task always runs: the join loop, its outcome, a restart that is
\* due and the boot that follows are not postponed forever
FairSpec ==
    /\ Spec
    /\ WF_vars(connectPoll)
    /\ WF_vars(connectWait)
    /\ WF_vars(connectSuccess \/ connectFailure)
    /\ WF_vars(checkSerialClear \/ checkSerialEnd)
    /\ WF_vars(\E answer \in QueryAnswers : setupMDNS(answer))
    /\ WF_vars(\E cause \in {"join_failed", "serial_clear", "saved"} :
                  restart(cause))
    /\ WF_vars((\E scan \in ScanResults : setupProvisioning(scan))
                  \/ setupConnecting)

----------------------------------------------------------------------------
(* Steps and states the properties speak of *)

\* The end of a pass of loop that polled the reader: at once when there
\* is no card, after the delays of readRFID when there is one
OperationalTick == \/ pollTags(NoCard)
                   \/ \E clear2 \in BOOLEAN : loopNewCard(clear2)

\* The step from one boot to the next
RestartStep == \E cause \in {"join_failed", "serial_clear", "saved"} :
                  restart(cause)

\* The step in which setup runs
SetupStep == \/ \E scan \in ScanResults : setupProvisioning(scan)
             \/ setupConnecting

\* The id of the latest new-card event of this boot; <<>> when there is none
LastEmitted == IF events = <<>> THEN <<>> ELSE events[Len(events)]

\* Provisioning: the access point and the portal are up and loop runs
Provisioning == wifiMode \in {"AP", "AP_STA"} /\ pc = "loop"

TagA == <<"4", "A", "3", "F", "F">>
TagB == <<"D", "E", "A", "D", "B", "E", "E", "F">>

----------------------------------------------------------------------------
\* C1: on every tick that polls the reader (station mode, link up), a new-card
\* event is emitted if and only if the id read is not empty and differs from
\* the id of the latest event of this boot (none at boot); the event carries
\* the id read.
C1_EmitIffNewId ==
    [][OperationalTick =>
          /\ (events' # events) <=> (tickRead' # <<>> /\ tickRead' # LastEmitted)
          /\ (events' # events) => (events' = Append(events, tickRead'))]_vars

\* C1 witness: the reads A, .., B, A have emitted exactly A, B, A.
C1_Witness == events = <<TagA, TagB, TagA>> /\ tickRead = TagA

\* C2: within a boot lastUID changes only on a tick that emits a new-card
\* event, and then holds the emitted id; a tick whose read is empty or equal
\* to lastUID leaves it unchanged; hence no id is emitted twice in a row.
C2_MemoryChangesOnlyOnEmit ==
    /\ [][(lastUID' # lastUID /\ ~RestartStep) =>
             (OperationalTick /\ events' = Append(events, lastUID'))]_vars
    /\ [][(OperationalTick /\ (tickRead' = <<>> \/ tickRead' = lastUID)) =>
             (lastUID' = lastUID /\ events' = events)]_vars
    /\ [](\A i \in 1..(Len(events) - 1) : events[i] # events[i + 1])

\* C2 witness: tag A was emitted and the latest poll found no tag; A is still
\* remembered.
C2_Witness == events = <<TagA>> /\ tickRead = <<>> /\ lastUID = TagA

\* C3: a boot that loads an empty ssid enters Provisioning and nothing else;
\* while the portal is up no join has been begun, no reconnect attempted and
\* no tag polled, and the portal is left only by a restart.
C3_ProvisioningIsClosed ==
    /\ [][(SetupStep /\ getString(prefs, "ssid") = "") =>
             (Provisioning' /\ webServerUp')]_vars
    /\ [](webServerUp =>
             /\ pc \in {"loop", "clear_begun", "clear_done",
                       "restart_serial_clear"}
             /\ beginCalls = 0
             /\ reconnectLog = <<>>
             /\ ~polled
             /\ events = <<>>)
    /\ [][(webServerUp /\ ~RestartStep) => webServerUp']_vars

\* C4: the join loop waits at most 10 times one second; when the radio never
\* reports connected it ends by clearing the store and restarting, and from
\* Connecting the device always gets either there or to a connected radio.
C4_JoinTerminates ==
    /\ [](attempts <= MaxJoinAttempts
          /\ attempts * JoinPollDelay <= MaxJoinAttempts * JoinPollDelay)
    /\ [][(connectPoll /\ pc' = "connect_wait") => ~linkUp]_vars
    /\ [][connectWait =>
             (attempts < MaxJoinAttempts /\ attempts' = attempts + 1)]_vars
    /\ [][(pc = "connect_result" /\ ~linkUp /\ pc' # pc) =>
             (prefs' = NoPrefs /\ pc' = "restart_join_failed")]_vars
    /\ (pc = "connecting") ~> (pc = "restart_join_failed" \/ linkUp)

\* C4 witness: the cap of 10 waits was used up and the restart is due.
C4_Witness == pc = "restart_join_failed" /\ attempts = MaxJoinAttempts

\* C5: two consecutive reconnect attempts of one boot are at least 60000 ms
\* of uptime apart.
C5_ReconnectFloor ==
    \A i \in 1..(Len(reconnectLog) - 1) :
        reconnectLog[i + 1] - reconnectLog[i] >= ReconnectInterval

\* C5 witness: two attempts exactly one interval apart, the millisecond
\* counter having wrapped between them.
C5_Witness ==
    /\ Len(reconnectLog) >= 2
    /\ reconnectLog[2] - reconnectLog[1] = ReconnectInterval
    /\ reconnectLog[2] % ULongModulus < reconnectLog[1] % ULongModulus

\* C6: every new-card event has been forwarded to sendRFIDData
\* exactly once, so the calls made are the events emitted.
C6_EveryEventNotified == notified = events


\* C7: when the join fails the store is empty before the restart, the boot
\* that follows loads the empty pair and enters Provisioning, and a restart
\* for a failed join always leads to Provisioning.
C7_JoinFailureLeadsToProvisioning ==
    /\ [](pc = "restart_join_failed" => prefs = NoPrefs)
    /\ [][(SetupStep /\ resetReason.cause = "join_failed") =>
             (savedSSID' = "" /\ savedPassword' = "" /\ Provisioning')]_vars
    /\ (pc = "restart_join_failed") ~> Provisioning

\* C7 witness: Provisioning in the boot that followed a failed join.
C7_Witness == Provisioning /\ resetReason.cause = "join_failed"

\* The store holding exactly the pair that handleSave accepted
HoldsPair(store, ssid, password) ==
    store = [ssid |-> <<ssid>>, password |-> <<password>>]

\* C8: whenever the device restarts with a submission that handleSave has
\* accepted, the store holds exactly the submitted pair, and the boot that
\* follows enters Connecting with that pair.
C8_SaveLeadsToConnecting ==
    /\ [][(RestartStep /\ apc # "idle") =>
             HoldsPair(prefs, newSSID, newPassword)]_vars
    /\ [][(SetupStep /\ resetReason.accepted) =>
             /\ pc' = "connecting"
             /\ savedSSID' = resetReason.ssid
             /\ savedPassword' = resetReason.password]_vars

\* C9: a POST /save without the ssid or without the password field is
\* answered 400, leaves the store and the credentials in RAM as they are and
\* starts no restart: the portal stays up and idle for the next submission.
C9_InvalidSubmissionRejected ==
    [][(\E req \in Requests :
           /\ (req.ssid = <<>> \/ req.password = <<>>)
           /\ (handleSaveInvalid(req) \/ handleSaveBegin(req))) =>
          /\ httpStatus' = 400
          /\ UNCHANGED <<prefs, savedSSID, savedPassword, pc, wifiMode>>
          /\ webServerUp' /\ apc' = "idle"]_vars

\* C9 witness: a submission was rejected and a later one is being saved.
C9_Witness == httpStatus = 400 /\ apc = "put_password" /\ Provisioning

\* C10 as claimed: a pass of loop that finds the clear command goes on to
\* clear the store, which is empty when checkSerialCommand has closed it and
\* the restart is due, and the boot that follows a restart for the clear
\* command enters Provisioning.
C10_ClearLeadsToProvisioning ==
    /\ [][(\E in \in SerialInputs : loopSerialClear(in)) =>
             pc' = "clear_begun"]_vars
    /\ [][checkSerialEnd =>
             (prefs' = NoPrefs /\ pc' = "restart_serial_clear")]_vars
    /\ [][(SetupStep /\ resetReason.cause = "serial_clear") =>
             Provisioning']_vars

\* One pass of loop that finds the link down
LinkDownTick == \E in \in SerialInputs : loopReconnecting(in)

\* C11: where a pass of loop begins, with the link down no step polls the
\* reader, emits a new-card event or changes lastUID; and whenever a pass
\* begins in station mode with the link up, it is the pass that polls the
\* reader, with no other step needed first.
C11_NoPollWhileLinkDown ==
    /\ [][(pc = "loop" /\ ~linkUp /\ ~RestartStep) =>
             UNCHANGED <<polled, tickRaw, tickRead, events, lastUID>>]_vars
    /\ []((pc = "loop" /\ ~InAPMode(wifiMode) /\ linkUp) =>
             ENABLED pollTags(NoCard))

\* C11 witness: the link is up again after a reconnect attempt and the reader
\* has been polled, with a tag on it.
C11_Witness ==
    /\ reconnectLog # <<>>
    /\ linkUp
    /\ polled
    /\ tickRead = TagB
    /\ events = <<TagB>>

\* C12: a pass of loop that finds the link down, and the loss or return of
\* the link itself, leave the store and the position of the main task alone
\* (no clear, no restart); such a pass is always possible while the link is
\* down, and whenever 60000 ms have passed on the counter since the previous
\* attempt it issues an attempt, however many were issued before; every
\* WiFi.begin of a boot in station mode is given the pair loaded in setup,
\* which does not change in that boot.
C12_ReconnectsForever ==
    /\ [][(LinkDownTick \/ linkChange) => UNCHANGED <<prefs, pc>>]_vars
    /\ []((pc = "loop" /\ ~InAPMode(wifiMode) /\ ~linkUp /\
           ((millis - lastReconnectTime) % ULongModulus) >= ReconnectInterval)
          => /\ ENABLED (/\ LinkDownTick
                         /\ reconnectLog' = Append(reconnectLog, clock)
                         /\ joinedWith' = <<savedSSID, savedPassword>>)
             /\ ~ENABLED (LinkDownTick /\ UNCHANGED reconnectLog))
    /\ [][(wifiMode = "STA" /\ wifiMode' = "STA") =>
             UNCHANGED <<savedSSID, savedPassword>>]_vars
    /\ [](wifiMode = "STA" => joinedWith = <<savedSSID, savedPassword>>)
    /\ []((pc = "loop" /\ ~InAPMode(wifiMode) /\ ~linkUp) =>
             ENABLED LinkDownTick)

\* C12 witness: the link is down, two reconnect attempts have been issued
\* with the saved pair, and the store still holds it.
C12_Witness ==
    /\ pc = "loop"
    /\ ~linkUp
    /\ Len(reconnectLog) >= 2
    /\ joinedWith = <<"home", "secret">>
    /\ loadCredentials(prefs) = [ssid |-> "home", password |-> "secret"]

\* C13: setupMDNS is called at most once in a boot, when the join has
\* succeeded and at no other step, so it has run exactly once whenever loop
\* runs in station mode and before any tag poll; serverURL changes within a
\* boot only when the query of that call returns, before loop begins, and
\* it stays empty from then on when the query found no address.
C13_ResolveOnce ==
    /\ [](mdnsQueries <= 1)
    /\ []((pc = "loop" /\ wifiMode = "STA") => mdnsQueries = 1)
    /\ [](polled => mdnsQueries = 1)
    /\ [][(mdnsQueries' # mdnsQueries /\ ~RestartStep) =>
             /\ pc = "connect_result" /\ pc' = "mdns_query"
             /\ mdnsQueries' = mdnsQueries + 1
             /\ ~polled']_vars
    /\ [][(serverURL' # serverURL /\ ~RestartStep) =>
             (pc = "mdns_query" /\ pc' = "loop" /\ serverURL = "")]_vars
    /\ [][setupMDNS("") => serverURL' = ""]_vars
    /\ [][(pc = "loop" /\ ~RestartStep) => serverURL' = serverURL]_vars

\* C13 witness: the one query found no address; the link has been lost and
\* has come back, tags are polled and serverURL is still empty.
C13_Witness ==
    /\ pc = "loop"
    /\ mdnsQueries = 1
    /\ serverURL = ""
    /\ reconnectLog # <<>>
    /\ linkUp
    /\ polled

\* The store holds one of the two keys without the other
PartialPair == (prefs.ssid = <<>>) # (prefs.password = <<>>)

\* C14 as claimed: a save and a clear never overlap, so that outside of a
\* save that is between its two writes the store never holds a partial pair.
C14_NoPartialPair == apc # "put_password" => ~PartialPair

\* Strings to save in the round trip
CredStrings == {"", "home", "secret", "net 1"}

\* C15: on every store the program reaches, for every pair (x, y) of
\* strings, loadCredentials after saveCredentials(x, y) yields x and y,
\* loadCredentials after a clear yields the empty ssid and password, and
\* clearing a cleared store gives what one clear gives; the load of setup
\* yields what the store holds.
C15_SaveLoadRoundTrip ==
    /\ [](\A x \in CredStrings : \A y \in CredStrings :
             loadCredentials(saveCredentials(prefs, x, y)) =
                 [ssid |-> x, password |-> y])
    /\ [](loadCredentials(clearPrefs(prefs)) = [ssid |-> "", password |-> ""])
    /\ [](clearPrefs(clearPrefs(prefs)) = clearPrefs(prefs))
    /\ [][SetupStep =>
             [ssid |-> savedSSID', password |-> savedPassword'] =
                 loadCredentials(prefs)]_vars

\* C15 witness: setup has loaded the pair that a save left in the store,
\* and the join is under way with it.
C15_Witness ==
    /\ pc = "connecting"
    /\ resetReason.cause = "saved"
    /\ prefs = saveCredentials(NoPrefs, "home", "secret")
    /\ savedSSID = "home"
    /\ savedPassword = "secret"
    /\ joinedWith = <<"home", "secret">>

\* What the list and the count are after the scan of setup answered scan:
\* the first min(scan, 20) names in scan order, the count within lo..20
ScanCaptured(scan, lo) ==
    /\ networkCount' \in lo..MAX_NETWORKS
    /\ scan >= 0 =>
          /\ networkCount' = IF scan < MAX_NETWORKS THEN scan ELSE MAX_NETWORKS
          /\ \A i \in 0..(MAX_NETWORKS - 1) :
                networkList'[i] = IF i < scan THEN ScanSSID(i) ELSE ""

\* The list and the count change, within a boot, only in the step that
\* enters Provisioning
ScanOnlyOnEntry ==
    (<<networkList, networkCount>>' # <<networkList, networkCount>>
        /\ ~RestartStep)
    => (pc = "setup" /\ pc' = "loop" /\ wifiMode' \in {"AP", "AP_STA"})

\* C16 as claimed: the list is captured once, on entering Provisioning; it
\* holds the first min(n, 20) names in scan order; the count is always within
\* 0..20, also when the scan reports an error; neither changes afterwards.
C16_ScanListBounded ==
    /\ [][ScanOnlyOnEntry]_vars
    /\ [][\A scan \in ScanResults :
             setupProvisioning(scan) => ScanCaptured(scan, 0)]_vars
    /\ [](networkCount \in 0..MAX_NETWORKS)

\* C16 as amended: the same, but the count is min(n, 20) for a scan that
\* reports n networks and is the negative answer of the scan itself (-1 or
\* -2) when the scan reports an error, the list being left empty then.
C16_ScanListBoundedUnlessError ==
    /\ [][ScanOnlyOnEntry]_vars
    /\ [][\A scan \in ScanResults :
             setupProvisioning(scan) =>
                /\ ScanCaptured(scan, -2)
                /\ scan < 0 => (networkCount' = scan
                                  /\ networkList' = EmptyList)]_vars
    /\ [](networkCount \in (-2)..MAX_NETWORKS)

\* C16 witness: Provisioning with a full list: the scan reported 20 networks
\* or more and the 20 first are kept in scan order.
C16_Witness ==
    /\ Provisioning
    /\ networkCount = MAX_NETWORKS
    /\ \A i \in 0..(MAX_NETWORKS - 1) : networkList[i] = ScanSSID(i)
    /\ httpStatus = 400

\* The characters a tag id may be made of
UpperHexDigits == {"0", "1", "2", "3", "4", "5", "6", "7", "8", "9",
                   "A", "B", "C", "D", "E", "F"}

\* C17 as claimed: the id that readRFID made of the n bytes of the tag polled
\* last consists of exactly 2n upper-case hexadecimal digits.
C17_TwoDigitsPerByte ==
    tickRaw # NoCard =>
        /\ Len(tickRead) = 2 * Len(tickRaw)
        /\ \A i \in 1..Len(tickRead) : tickRead[i] \in UpperHexDigits

\* C18: a pass of loop that finds the link down, and the loss or the return
\* of the link, leave lastUID and the events as they are; a poll that reads the remembered id emits nothing, before
\* and after an outage alike; lastUID is the id of the latest event of the
\* boot, and once it holds an id only a restart empties it.
C18_MemorySurvivesOutage ==
    /\ [][(LinkDownTick \/ linkChange) => UNCHANGED <<lastUID, events>>]_vars
    /\ [][(OperationalTick /\ reconnectLog # <<>> /\ tickRead' = lastUID) =>
             UNCHANGED <<lastUID, events>>]_vars
    /\ [][(lastUID # <<>> /\ ~RestartStep) => lastUID' # <<>>]_vars
    /\ [](lastUID = LastEmitted)

\* C18 witness: tag A was emitted once; a reconnect attempt was issued in an
\* outage; the link is up and the latest poll read A again, with no second
\* event.
C18_Witness ==
    /\ reconnectLog # <<>>
    /\ linkUp
    /\ tickRaw = <<4, 163, 255>>
    /\ tickRead = TagA
    /\ events = <<TagA>>
    /\ lastUID = TagA

\* loop runs in station mode and finds the link down
LinkDownPass == pc = "loop" /\ ~InAPMode(wifiMode) /\ ~linkUp

\* What the millisecond counter read at the latest reconnect attempt of this
\* boot; 0 when there was none
PrevAttemptMillis ==
    IF reconnectLog = <<>> THEN 0
    ELSE reconnectLog[Len(reconnectLog)] % ULongModulus

\* C19: a pass of loop that finds the link down issues a reconnect attempt
\* if and only if the millisecond counter is 60000 ms or more past its
\* reading at the previous attempt of the boot, taken as 0 when there was
\* none; no attempt is issued at an uptime below 60000 ms; the time of the
\* previous attempt changes only with an attempt, not when the link returns.
C19_AttemptIffIntervalElapsed ==
    /\ [](LinkDownPass =>
            IF ((millis - PrevAttemptMillis) % ULongModulus) >= ReconnectInterval
            THEN /\ ENABLED (/\ LinkDownTick
                             /\ reconnectLog' = Append(reconnectLog, clock))
                 /\ ~ENABLED (LinkDownTick /\ UNCHANGED reconnectLog)
            ELSE ~ENABLED (LinkDownTick /\ reconnectLog' # reconnectLog))
    /\ [](\A i \in 1..Len(reconnectLog) : reconnectLog[i] >= ReconnectInterval)
    /\ [](lastReconnectTime = PrevAttemptMillis)
    /\ [][(lastReconnectTime' # lastReconnectTime /\ ~RestartStep) =>
             (~linkUp /\ reconnectLog' = Append(reconnectLog, clock))]_vars
    /\ [][linkChange => UNCHANGED lastReconnectTime]_vars

\* C19 witness: the first attempt was issued at 60000 ms of uptime exactly;
\* the reader has been polled since the boot; the link is down one unit of
\* time short of 60000 ms after that attempt and no second one was issued.
C19_Witness ==
    /\ LinkDownPass
    /\ polled
    /\ reconnectLog = <<ReconnectInterval>>
    /\ clock = 2 * ReconnectInterval - 1

\* C20: when the millisecond counter has wrapped since the previous attempt
\* (it reads less than it did then), a pass of loop that finds the link down
\* issues an attempt if and only if the reading plus the counter's range
\* minus the previous reading is 60000 ms or more, which is the unsigned
\* difference; so two attempts with a wrap between them are 60000 ms of
\* uptime or more apart.
C20_FloorAcrossWrap ==
    /\ []((LinkDownPass /\ millis < lastReconnectTime) =>
            IF millis + ULongModulus - lastReconnectTime >= ReconnectInterval
            THEN ~ENABLED (LinkDownTick /\ UNCHANGED reconnectLog)
            ELSE ~ENABLED (LinkDownTick /\ reconnectLog' # reconnectLog))
    /\ [](\A i \in 1..(Len(reconnectLog) - 1) :
             (reconnectLog[i + 1] \div ULongModulus
                  > reconnectLog[i] \div ULongModulus)
             => reconnectLog[i + 1] - reconnectLog[i] >= ReconnectInterval)

\* C20 witness: an attempt was issued just before the counter wrapped; the
\* counter has wrapped, the link is down one unit of time short of 60000 ms
\* after the attempt, and no second attempt was issued.
C20_Witness ==
    /\ LinkDownPass
    /\ reconnectLog = <<ULongModulus - 1>>
    /\ clock = ULongModulus + ReconnectInterval - 2
    /\ millis < lastReconnectTime

============================================================================
